---- MODULE Spec2Model ----
(***************************************************************************)
(* Model of create_examples in src/models/nlp/common/preprocess.py, the    *)
(* segment packer that turns a batch of tokenized sentences into           *)
(* [CLS] first [SEP] second [SEP] pre-training examples.                   *)
(*                                                                         *)
(* Token lists are kept run-length encoded.  The item                      *)
(*     [tok |-> "w", sent |-> i, n |-> k]                                  *)
(* stands for the first k tokens of the i-th sentence of the batch, and a  *)
(* sentinel is an item of one token.  The code only ever appends whole     *)
(* sentences to a list and cuts a list with the slice [:k], so every list  *)
(* it builds has this form; the encoding lets sentence lengths reach the   *)
(* constant 100000 of the code.                                            *)
(***************************************************************************)
EXTENDS Integers, Sequences, FiniteSets, TLC

\* ---------------------------------------------------------------- bounds
MaxSentences == 3
MaxShortSentence == 4
LongSentence == 60000
MinMaxLength == 1
MaxMaxLength == 10
MaxCalls == 2
MaxNextSentences == 2

\* ------------------------------------------------------ program constants
SingleSegmentTarget == 100000
MinShortTarget == 5

SentenceLengths == (1..MaxShortSentence) \cup {LongSentence}
MaxLengths == MinMaxLength..MaxMaxLength
Batches == UNION {[1..k -> SentenceLengths] : k \in 0..MaxSentences}
NextSentenceLengths == {1, MaxShortSentence, LongSentence}
NextBatches == UNION {[1..k -> NextSentenceLengths] : k \in 0..MaxNextSentences}

VARIABLES
    max_length,                   \* the max_length argument
    batch,                        \* batch["tokens"]: the length of each sentence
    pc,                           \* "start", "loop", "done" or "raised"
    idx,                          \* number of sentences the for loop has consumed
    target_length,
    first_segment_target_length,
    first_segment,
    second_segment,
    examples,
    draws,                        \* history: the values the random module returned
    flushed_at,                   \* history: the sentences whose iteration flushed
    emitted,                      \* history: segments and consumed run of each Example
    returned                      \* history: number of Examples each earlier call returned

vars == <<max_length, batch, pc, idx, target_length, first_segment_target_length,
          first_segment, second_segment, examples, draws, flushed_at, emitted,
          returned>>

\* ---------------------------------------------------------------- helpers
Max(a, b) == IF a >= b THEN a ELSE b

CLS == [tok |-> "[CLS]", sent |-> 0, n |-> 1]
SEP == [tok |-> "[SEP]", sent |-> 0, n |-> 1]

\* list(sentence) for the i-th sentence of the batch
Sentence(i) == <<[tok |-> "w", sent |-> i, n |-> batch[i]]>>

\* len(list)
RECURSIVE SegLen(_)
SegLen(seg) == IF seg = <<>> THEN 0 ELSE seg[1].n + SegLen(Tail(seg))

\* the first k tokens of a list, 0 <= k
RECURSIVE TakeTokens(_, _)
TakeTokens(seg, k) ==
    IF seg = <<>> \/ k <= 0 THEN <<>>
    ELSE IF seg[1].n <= k
         THEN <<seg[1]>> \o TakeTokens(Tail(seg), k - seg[1].n)
         ELSE <<[seg[1] EXCEPT !.n = k]>>

\* Python's seg[:k]: a negative k counts from the end of the list
Slice(seg, k) ==
    IF k >= 0 THEN TakeTokens(seg, k)
    ELSE TakeTokens(seg, Max(0, SegLen(seg) + k))

\* lines 148-152: the first-segment target from the outcome of random() < 0.1
FirstSegmentTarget(single, target) ==
    IF single THEN SingleSegmentTarget ELSE (target - 3) \div 2

\* line 166 is evaluated (and a draw consumed) only when the conditions of
\* lines 161-165 leave the decision to it
NeedsCoin(first, second, slen, fstl) ==
    /\ ~(SegLen(first) = 0)
    /\ ~(SegLen(first) + slen < fstl)
    /\ SegLen(second) = 0
    /\ SegLen(first) < fstl

GoesToFirst_Inclusive(first, second, slen, fstl, coin) ==
    \/ SegLen(first) = 0
    \/ SegLen(first) + slen <= fstl
    \/ (/\ SegLen(second) = 0
        /\ SegLen(first) < fstl
        /\ coin)

\* lines 160-168: the condition of the if; coin is the outcome of random() < 0.5
GoesToFirst(first, second, slen, fstl, coin) ==
    \/ SegLen(first) = 0
    \/ SegLen(first) + slen < fstl
    \/ (/\ SegLen(second) = 0
        /\ SegLen(first) < fstl
        /\ coin)

\* line 172
FlushDue(first, second, target) == SegLen(first) + SegLen(second) >= target

\* line 174
TrimFirst(first, maxlen) == Slice(first, maxlen - 2)

\* line 175
TrimSecond(second, first, maxlen) ==
    Slice(second, Max(0, maxlen - SegLen(first) - 3))

Example_NoEmptySep(first, second) ==
    IF second = <<>> THEN <<CLS>> \o first \o <<SEP>>
    ELSE <<CLS>> \o first \o <<SEP>> \o second \o <<SEP>>

\* lines 176 and 187
Example(first, second) == <<CLS>> \o first \o <<SEP>> \o second \o <<SEP>>

ReturnedExamples_IfPending(exs, first, second) ==
    IF first = <<>> /\ second = <<>> THEN exs
    ELSE Append(exs, Example(first, second))

\* lines 187-189: the list create_examples returns
ReturnedExamples(exs, first, second) == Append(exs, Example(first, second))

Draw(kind, hit, val) == [kind |-> kind, hit |-> hit, val |-> val]

\* the whole sentences of the batch consumed since the previous flush, up to
\* sentence last
ConsumedRun(last) ==
    LET from == IF flushed_at = <<>> THEN 1 ELSE flushed_at[Len(flushed_at)] + 1
    IN  [k \in 1..(last + 1 - from) |-> Sentence(from + k - 1)[1]]

\* ------------------------------------------------------------------ state
Init ==
    /\ max_length \in MaxLengths
    /\ batch \in Batches
    /\ pc = "start"
    /\ idx = 0
    /\ target_length = 0
    /\ first_segment_target_length = 0
    /\ first_segment = <<>>
    /\ second_segment = <<>>
    /\ examples = <<>>
    /\ draws = <<>>
    /\ flushed_at = <<>>
    /\ emitted = <<>>
    /\ returned = <<>>

\* lines 144-155: entry of create_examples
Start ==
    /\ pc = "start"
    /\ \E single \in BOOLEAN :
        /\ target_length' = max_length
        /\ first_segment_target_length' = FirstSegmentTarget(single, max_length)
        /\ draws' = Append(draws, Draw("single", single, 0))
    /\ first_segment' = <<>>
    /\ second_segment' = <<>>
    /\ examples' = <<>>
    /\ pc' = "loop"
    /\ UNCHANGED <<max_length, batch, idx, flushed_at, emitted, returned>>

HasSentence == pc = "loop" /\ idx < Len(batch)

CoinDraws(coin) ==
    IF NeedsCoin(first_segment, second_segment, batch[idx + 1],
                 first_segment_target_length)
    THEN Append(draws, Draw("coin", coin, 0))
    ELSE draws

\* the outcomes of line 166 to consider: both when it is evaluated
Coins ==
    IF NeedsCoin(first_segment, second_segment, batch[idx + 1],
                 first_segment_target_length)
    THEN BOOLEAN ELSE {FALSE}

\* lines 156-169: an iteration that takes the if branch
SentenceToFirst ==
    /\ HasSentence
    /\ \E coin \in Coins :
        /\ GoesToFirst(first_segment, second_segment, batch[idx + 1],
                       first_segment_target_length, coin)
        /\ draws' = CoinDraws(coin)
    /\ first_segment' = first_segment \o Sentence(idx + 1)
    /\ idx' = idx + 1
    /\ UNCHANGED <<max_length, batch, pc, target_length, first_segment_target_length,
                   second_segment, examples, flushed_at, emitted, returned>>

\* lines 156-172: an iteration that takes the else branch and does not flush
SentenceToSecond ==
    /\ HasSentence
    /\ \E coin \in Coins :
        /\ ~GoesToFirst(first_segment, second_segment, batch[idx + 1],
                        first_segment_target_length, coin)
        /\ draws' = CoinDraws(coin)
    /\ ~FlushDue(first_segment, second_segment \o Sentence(idx + 1), target_length)
    /\ second_segment' = second_segment \o Sentence(idx + 1)
    /\ idx' = idx + 1
    /\ UNCHANGED <<max_length, batch, pc, target_length, first_segment_target_length,
                   first_segment, examples, flushed_at, emitted, returned>>

\* lines 171-178 for the sentence idx+1: the else branch when the flush is due;
\* drawn is the history after the draws of lines 180-181
FlushWith(coin, drawn, target, nextpc) ==
    LET second  == second_segment \o Sentence(idx + 1)
        trimmed == TrimFirst(first_segment, max_length)
        rest    == TrimSecond(second, trimmed, max_length)
    IN  /\ HasSentence
        /\ ~GoesToFirst(first_segment, second_segment, batch[idx + 1],
                        first_segment_target_length, coin)
        /\ FlushDue(first_segment, second, target_length)
        /\ examples' = Append(examples, Example(trimmed, rest))
        /\ emitted' = Append(emitted, [first |-> trimmed, second |-> rest,
                                       run |-> ConsumedRun(idx + 1)])
        /\ first_segment' = <<>>
        /\ second_segment' = <<>>
        /\ flushed_at' = Append(flushed_at, idx + 1)
        /\ draws' = CoinDraws(coin) \o drawn
        /\ target_length' = target
        /\ pc' = nextpc
        /\ idx' = idx + 1
        /\ UNCHANGED <<max_length, batch, first_segment_target_length, returned>>

\* lines 171-183 with random() >= 0.05 on line 180
SentenceFlush ==
    \E coin \in {c \in BOOLEAN : HasSentence /\ c \in Coins} :
        FlushWith(coin, <<Draw("short", FALSE, 0)>>, max_length, "loop")

\* lines 171-181 with random() < 0.05 on line 180 and a value from randint
SentenceFlushShort ==
    \E coin \in {c \in BOOLEAN : HasSentence /\ c \in Coins} :
        \E t \in MinShortTarget..max_length :
            FlushWith(coin, <<Draw("short", TRUE, 0), Draw("length", TRUE, t)>>,
                      t, "loop")

\* lines 171-181 with random() < 0.05 on line 180 when randint(5, max_length)
\* has an empty range: it raises ValueError and create_examples returns nothing
SentenceFlushRaise ==
    \E coin \in {c \in BOOLEAN : HasSentence /\ c \in Coins} :
        /\ MinShortTarget > max_length
        /\ FlushWith(coin, <<Draw("short", TRUE, 0)>>, target_length, "raised")

\* lines 185-189: the stream is exhausted
Return ==
    /\ pc = "loop"
    /\ idx = Len(batch)
    /\ examples' = ReturnedExamples(examples, first_segment, second_segment)
    /\ emitted' = Append(emitted, [first |-> first_segment, second |-> second_segment,
                                   run |-> ConsumedRun(idx)])
    /\ pc' = "done"
    /\ UNCHANGED <<max_length, batch, idx, target_length, first_segment_target_length,
                   first_segment, second_segment, draws, flushed_at, returned>>

NextCall_CarryOver ==
    /\ pc = "done"
    /\ Len(returned) + 1 < MaxCalls
    /\ returned' = Append(returned, Len(examples))
    /\ batch' \in NextBatches
    /\ idx' = 0
    /\ \E single \in BOOLEAN :
        /\ target_length' = max_length
        /\ first_segment_target_length' = FirstSegmentTarget(single, max_length)
        /\ draws' = <<Draw("single", single, 0)>>
    /\ examples' = <<>>
    /\ flushed_at' = <<>>
    /\ emitted' = <<>>
    /\ pc' = "loop"
    /\ UNCHANGED <<max_length, first_segment, second_segment>>

\* lines 192-198, then lines 144-155: dset.map keeps the list returned for the
\* batch and calls create_examples on the next batch, whose locals are new
NextCall ==
    /\ pc = "done"
    /\ Len(returned) + 1 < MaxCalls
    /\ returned' = Append(returned, Len(examples))
    /\ batch' \in NextBatches
    /\ idx' = 0
    /\ \E single \in BOOLEAN :
        /\ target_length' = max_length
        /\ first_segment_target_length' = FirstSegmentTarget(single, max_length)
        /\ draws' = <<Draw("single", single, 0)>>
    /\ first_segment' = <<>>
    /\ second_segment' = <<>>
    /\ examples' = <<>>
    /\ flushed_at' = <<>>
    /\ emitted' = <<>>
    /\ pc' = "loop"
    /\ UNCHANGED max_length

Next ==
    \/ Start
    \/ SentenceToFirst
    \/ SentenceToSecond
    \/ SentenceFlush
    \/ SentenceFlushShort
    \/ SentenceFlushRaise
    \/ Return
    \/ NextCall

Spec == Init /\ [][Next]_vars

\* ------------------------------------------------------------ properties
Flushes == Len(flushed_at)

\* the configurations the packer's contract admits
ValidConfig == max_length > 3

SentinelsOnly == <<CLS, SEP, SEP>>

AllDrawsFalse == \A d \in 1..Len(draws) : ~draws[d].hit

SingleDraws == SelectSeq(draws, LAMBDA d : d.kind = "single")

LastSentenceFlushed ==
    /\ batch # <<>>
    /\ flushed_at # <<>>
    /\ flushed_at[Len(flushed_at)] = Len(batch)

\* a is a prefix of the token list b, for b made of whole sentences
TokPrefix(a, b) ==
    /\ Len(a) <= Len(b)
    /\ \A k \in 1..Len(a) :
        /\ a[k].tok = b[k].tok
        /\ a[k].sent = b[k].sent
        /\ a[k].n <= b[k].n
        /\ (k < Len(a) => a[k].n = b[k].n)

\* C1: for max_length > 3, every emitted Example (flushed in the loop or
\* appended at the end of the stream) has at most max_length tokens,
\* sentinels included.
C1_LengthBound ==
    max_length > 3 =>
        \A k \in 1..Len(examples) : SegLen(examples[k]) <= max_length

ScenarioSentences == << <<"The", "cat", "sat", ".">>, <<"It", "was", "happy", ".">> >>

InScenario ==
    /\ max_length = 10
    /\ batch = [k \in 1..2 |-> Len(ScenarioSentences[k])]
    /\ AllDrawsFalse

\* the tokens of a list of the scenario, written out
RECURSIVE Words(_)
Words(seg) ==
    IF seg = <<>> THEN <<>>
    ELSE (IF seg[1].tok = "w"
          THEN [j \in 1..seg[1].n |-> ScenarioSentences[seg[1].sent][j]]
          ELSE <<seg[1].tok>>) \o Words(Tail(seg))

\* C2: with max_length = 10, the stream [The cat sat .], [It was happy .] and
\* every draw false, the second sentence triggers a flush with trimming and
\* the first Example is [CLS] The cat sat . [SEP] It was happy [SEP].
C2_Scenario ==
    (InScenario /\ pc = "done") =>
        /\ flushed_at # <<>>
        /\ flushed_at[1] = 2
        /\ Words(examples[1]) = <<"[CLS]", "The", "cat", "sat", ".", "[SEP]",
                                  "It", "was", "happy", "[SEP]">>

\* C3: when create_examples returns, it has emitted one Example after the
\* stream ended, so it returns exactly 1 + (number of flushes) Examples, at
\* least one; for the empty stream it returns the single Example
\* [CLS] [SEP] [SEP].
C3_TrailingExample ==
    pc = "done" =>
        /\ Len(examples) = 1 + Flushes
        /\ Len(examples) >= 1
        /\ examples[Len(examples)] = Example(first_segment, second_segment)
        /\ (batch = <<>> => examples = <<SentinelsOnly>>)

C3_Witness ==
    /\ pc = "done"
    /\ ValidConfig
    /\ Len(batch) >= 1
    /\ Flushes >= 1
    /\ Len(examples) = 1 + Flushes

\* C4 as stated: when the last sentence of the stream triggered a flush, no
\* further Example is emitted after the stream ends.
C4_NoExampleAfterLastFlush ==
    (ValidConfig /\ pc = "done" /\ LastSentenceFlushed) => Len(examples) = Flushes

\* C4 as amended: the end-of-stream Example is emitted unconditionally; when
\* the last sentence of the stream triggered a flush, one further Example
\* follows it and consists of the three sentinels only.
C4_SentinelExampleAfterLastFlush ==
    (pc = "done" /\ LastSentenceFlushed) =>
        /\ Len(examples) = Flushes + 1
        /\ examples[Len(examples)] = SentinelsOnly

C4_Witness ==
    /\ pc = "done"
    /\ ValidConfig
    /\ LastSentenceFlushed
    /\ examples[Len(examples)] = SentinelsOnly

\* C5: every emitted Example is [CLS] + first + [SEP] + second + [SEP]: its
\* first token is its only [CLS], it has exactly two [SEP], one right after
\* the first segment and one as last token right after the second segment,
\* also when a segment is empty.
C5_SentinelShape ==
    /\ Len(emitted) = Len(examples)
    /\ \A k \in 1..Len(examples) :
        LET e == examples[k]
            f == emitted[k].first
            s == emitted[k].second
        IN  /\ Len(e) = Len(f) + Len(s) + 3
            /\ e[1] = CLS
            /\ {i \in 1..Len(e) : e[i].tok = "[CLS]"} = {1}
            /\ {i \in 1..Len(e) : e[i].tok = "[SEP]"} = {Len(f) + 2, Len(e)}
            /\ Cardinality({i \in 1..Len(e) : e[i].tok = "[SEP]"}) = 2
            /\ SubSeq(e, 2, Len(f) + 1) = f
            /\ SubSeq(e, Len(f) + 3, Len(e) - 1) = s

C5_Witness ==
    /\ pc = "done"
    /\ ValidConfig
    /\ \E k \in 1..Len(examples) :
        emitted[k].first # <<>> /\ emitted[k].second # <<>>
    /\ \E k \in 1..Len(examples) :
        emitted[k].first # <<>> /\ emitted[k].second = <<>>

\* C6: for every emitted Example, first ++ second is a prefix of the
\* concatenation of the whole sentences consumed since the previous flush, in
\* source order, and the runs of successive Examples are disjoint and follow
\* the order of the stream.
C6_PrefixOfConsumedRun ==
    ValidConfig =>
    /\ \A k \in 1..Len(emitted) :
        TokPrefix(emitted[k].first \o emitted[k].second, emitted[k].run)
    /\ \A k \in 1..Len(emitted) : \A l \in 1..Len(emitted) :
        k < l => \A i \in 1..Len(emitted[k].run) : \A j \in 1..Len(emitted[l].run) :
                    emitted[k].run[i].sent < emitted[l].run[j].sent

\* C8: when the single-segment draw is true, every sentence goes to first and
\* nothing to second whatever the sentence lengths: no flush occurs and the
\* only Example is the end-of-stream one, with an empty second segment.
C8_SingleSegment ==
    (ValidConfig /\ pc \in {"loop", "done"} /\ draws[1].hit) =>
        /\ second_segment = <<>>
        /\ flushed_at = <<>>
        /\ (pc = "done" => Len(examples) = 1 /\ emitted[1].second = <<>>)

\* C9: a configuration with max_length <= 3 is rejected before any sentence
\* is processed and no Example is emitted.
C9_SmallMaxLengthRejected ==
    max_length <= 3 => (idx = 0 /\ examples = <<>> /\ pc # "done")

\* C10: after every flush a fresh single-segment draw is consumed and
\* first_segment_target_length is re-derived from it and from the
\* target_length chosen by that flush.
C10_TargetRederived ==
    (ValidConfig /\ pc \in {"loop", "done"} /\ flushed_at # <<>>) =>
        /\ Len(SingleDraws) = 1 + Flushes
        /\ first_segment_target_length =
               FirstSegmentTarget(SingleDraws[Len(SingleDraws)].hit, target_length)

\* C11: right after an Example is assembled by a flush, for max_length > 3,
\* len(first) <= max_length - 2 and len(second) <= max_length - len(first) - 3,
\* also when first had max_length - 2 or more tokens before trimming.
C11_TrimmedSegments ==
    ValidConfig =>
        \A k \in 1..Flushes :
            /\ SegLen(emitted[k].first) <= max_length - 2
            /\ SegLen(emitted[k].second) <=
                   max_length - SegLen(emitted[k].first) - 3

ShortDraws == SelectSeq(draws, LAMBDA d : d.kind = "short")

\* C12: for max_length > 3, target_length is max_length at stream start and
\* after a flush whose short-target draw is false, and an integer of
\* [5, max_length] after a flush whose draw is true; choosing it never fails
\* and it never leaves [5, max_length].
C12_TargetLengthRange ==
    ValidConfig =>
        /\ pc # "raised"
        /\ (pc \in {"loop", "done"} =>
               IF ShortDraws # <<>> /\ ShortDraws[Len(ShortDraws)].hit
               THEN target_length \in MinShortTarget..max_length
               ELSE target_length = max_length)

\* C13: each incoming sentence s is appended whole to exactly one segment: to
\* first if first is empty, or len(first) + len(s) < first_segment_target_length,
\* or (second is empty and len(first) < first_segment_target_length and a
\* fresh draw < 0.5); otherwise to second.  A flush inside the stream happens
\* exactly when s went to second and then len(first) + len(second) >=
\* target_length; an append to first never triggers a flush.
C13_AssignmentRule ==
    [][(pc = "loop" /\ idx' = idx + 1) =>
        LET slen    == batch[idx + 1]
            s       == [tok |-> "w", sent |-> idx + 1, n |-> slen]
            fresh   == /\ Len(draws') > Len(draws)
                       /\ draws'[Len(draws) + 1].kind = "coin"
            heads   == fresh /\ draws'[Len(draws) + 1].hit
            toFirst == \/ Len(first_segment) = 0
                       \/ SegLen(first_segment) + slen < first_segment_target_length
                       \/ (/\ Len(second_segment) = 0
                           /\ SegLen(first_segment) < first_segment_target_length
                           /\ heads)
            flushed == flushed_at' # flushed_at
        IN  /\ toFirst =>
                /\ first_segment' = Append(first_segment, s)
                /\ second_segment' = second_segment
                /\ ~flushed
                /\ examples' = examples
            /\ ~toFirst =>
                /\ flushed <=> (SegLen(first_segment) + SegLen(second_segment) + slen
                                   >= target_length)
                /\ ~flushed =>
                    /\ second_segment' = Append(second_segment, s)
                    /\ first_segment' = first_segment
                    /\ examples' = examples
                /\ flushed =>
                    /\ flushed_at' = Append(flushed_at, idx + 1)
                    /\ Len(examples') = Len(examples) + 1
                    /\ TokPrefix(emitted'[Len(emitted')].first, first_segment)
                    /\ TokPrefix(emitted'[Len(emitted')].second,
                                 Append(second_segment, s))
                    /\ first_segment' = <<>>
                    /\ second_segment' = <<>>
      ]_vars

C13_Witness ==
    /\ pc = "done"
    /\ ValidConfig
    /\ Flushes >= 1
    /\ \E d \in 1..Len(draws) : draws[d].kind = "coin" /\ draws[d].hit

RECURSIVE Sum(_)
Sum(seq) == IF seq = <<>> THEN 0 ELSE seq[1] + Sum(Tail(seq))

\* the positions <<k, i>> of the sentence tokens in the Examples of this call
WordPositions ==
    {pos \in UNION {{<<k, i>> : i \in 1..Len(examples[k])} : k \in 1..Len(examples)} :
        examples[pos[1]][pos[2]].tok = "w"}

\* C14: create_examples carries no state from one call to the next: each call
\* (one per batch) starts with empty segments and target_length = max_length
\* and ends with its own trailing Example, so every Example holds tokens of
\* the batch of its call only and k calls yield at least k Examples.
C14_NoCarriedState ==
    /\ (pc = "loop" /\ idx = 0) =>
        /\ first_segment = <<>>
        /\ second_segment = <<>>
        /\ examples = <<>>
        /\ target_length = max_length
    /\ \A pos \in WordPositions :
        LET item == examples[pos[1]][pos[2]]
        IN  /\ item.sent \in 1..idx
            /\ item.n <= batch[item.sent]
            /\ \A other \in WordPositions :
                   examples[other[1]][other[2]].sent = item.sent => other = pos
    /\ \A c \in 1..Len(returned) : returned[c] >= 1
    /\ pc = "done" =>
        /\ Len(examples) >= 1
        /\ Sum(returned) + Len(examples) >= Len(returned) + 1

C14_Witness ==
    /\ pc = "done"
    /\ ValidConfig
    /\ Len(returned) >= 1
    /\ returned[1] >= 2
    /\ Flushes >= 1
    /\ WordPositions # {}

====
